---- MODULE Spec2Model ----
(***************************************************************************)
(* V-Nashak license server (server.js): the /send-license and              *)
(* /activate-license handlers over the in-memory used-ID set and the       *)
(* License collection.  Every handler is cut at its awaits: one action per *)
(* synchronous stretch of code, so that concurrent requests interleave     *)
(* exactly where the event loop lets them.                                 *)
(***************************************************************************)
EXTENDS Integers, Sequences, FiniteSets, TLC

(* ---------------------------- bounds ----------------------------------- *)
\* concurrent /send-license handlers in flight
NumIssue == 2
\* concurrent /activate-license handlers in flight
NumAct == 2
\* documents the License collection may hold
MaxLicenses == 3
\* base-36 digits of a Math.random() value the model draws
MaxDigits == 4

IssueSlots == 1..NumIssue
ActSlots == 1..NumAct

(* ---------------------------- inputs ----------------------------------- *)
\* a field absent from the request body (falsy in JS)
Missing == ""
\* a document field that was never set
Null == "null"
\* activatedAt: never set, or the new Date() of the activation (the model
\* keeps no more of a date than that it was set)
NoDate == "no date"
Date == "date"

\* the contents user_ids.json may have when the server starts
ProvisionedLists == {{"U1"}, {"U1", "U2"}}
UserIdInputs == {Missing, "U1", "U2", "X9"}
\* the addresses licenses are requested for, and those activation is tried with
OwnerEmails == {Missing, "a@b.com"}
EmailInputs == {Missing, "a@b.com", "c@d.com"}
NameInputs == {Missing, "Ann"}
PhoneInputs == {Missing, "555"}
MachineInputs == {Missing, "mach-1", "mach-2"}
\* the values generateUniqueLicenseKey's random segments can produce
Keys == {"AAAA-AAAA-AAAA", "BBBB-BBBB-BBBB"}
KeyInputs == {Missing} \cup Keys

IssueBodies == [email : OwnerEmails, userId : UserIdInputs,
                name : NameInputs, phoneNumber : PhoneInputs]
ActBodies == [email : EmailInputs, licenseKey : KeyInputs, machineId : MachineInputs]

NoIssueBody == [email |-> Missing, userId |-> Missing, name |-> Missing, phoneNumber |-> Missing]
NoActBody == [email |-> Missing, licenseKey |-> Missing, machineId |-> Missing]

(* ---------------------------- responses -------------------------------- *)
NoResp == "none"
AllFieldsRequired == "400 ERROR All fields are required."
NotAValidId == "400 ERROR User ID is not a valid ID."
AlreadyUsed == "400 ERROR User ID has already been used."
SuccessNoEmail == "200 SUCCESS User ID validated, but email is not configured on the server."
SuccessSent == "200 SUCCESS User ID validated and license key sent to your email!"
InternalError == "500 ERROR An internal server error occurred."

ActFieldsRequired == "400 ERROR Email, licenseKey, and machineId are required."
InvalidKey == "200 ERROR Invalid license key."
EmailMismatch == "200 ERROR This license key is not valid for this email address."
AlreadyActivated == "200 ALREADY_ACTIVATED This license is already active on this device."
MachineMismatch == "200 ERROR This license key is already activated on a different machine."
Valid == "200 VALID License activated successfully."
DatabaseError == "500 ERROR A database error occurred during activation."

IsSuccess(resp) == resp \in {SuccessNoEmail, SuccessSent}

(* ---------------------------- state ------------------------------------ *)
VARIABLES
    validUserIds,     \* the Set loadValidUserIds fills from user_ids.json
    usedUserIds,      \* the in-memory Set of consumed user IDs
    usedIdsFile,      \* contents of used-user-ids.json
    licenses,         \* the License collection, in insertion order; _id = index
    emailConfigured,  \* EMAIL_USER and EMAIL_PASS are both set
    ipc, ireq, ikey,  \* /send-license handlers: position, body, candidate key
    apc, areq, adoc,  \* /activate-license handlers: position, body, storedLicense
    iout,             \* the /send-license response sent by the last step, if any
    aout,             \* the /activate-license response sent by the last step, if any
    issuedOK,         \* history: the number of SUCCESS responses sent, per userId
    activatedOK       \* history: <<licenseKey, machineId>> of the VALID responses sent

storeVars == <<validUserIds, usedUserIds, usedIdsFile, licenses, emailConfigured>>
issueVars == <<ipc, ireq, ikey, issuedOK>>
actVars == <<apc, areq, adoc, activatedOK>>
vars == <<validUserIds, usedUserIds, usedIdsFile, licenses, emailConfigured,
          ipc, ireq, ikey, apc, areq, adoc, iout, aout, issuedOK, activatedOK>>

NoDoc == [id |-> 0, machineId |-> Null, status |-> Null, activatedAt |-> NoDate]
NoIssueOut == [userId |-> Missing, resp |-> NoResp]
NoActOut == [licenseKey |-> Missing, machineId |-> Missing, resp |-> NoResp]

Init ==
    /\ validUserIds \in ProvisionedLists
    /\ usedUserIds = {}
    /\ usedIdsFile = {}
    /\ licenses = <<>>
    /\ emailConfigured \in BOOLEAN
    /\ ipc = [r \in IssueSlots |-> "idle"]
    /\ ireq = [r \in IssueSlots |-> NoIssueBody]
    /\ ikey = [r \in IssueSlots |-> Missing]
    /\ apc = [r \in ActSlots |-> "idle"]
    /\ areq = [r \in ActSlots |-> NoActBody]
    /\ adoc = [r \in ActSlots |-> NoDoc]
    /\ iout = NoIssueOut
    /\ aout = NoActOut
    /\ issuedOK = [u \in UserIdInputs |-> 0]
    /\ activatedOK = {}

(* ---------------------------- user-ID validation ----------------------- *)
isUserIdValid(userId) == userId \in validUserIds

isUserIdAlreadyUsed(userId) == userId \in usedUserIds

\* mutation of validateUserIdDirectAndUnused: the usage check is left out
validateIgnoringUsage(userId) ==
    IF ~isUserIdValid(userId) THEN NotAValidId ELSE "valid"

\* mutation of validateUserIdDirectAndUnused: the allow-list is not consulted
validateIgnoringAllowList(userId) ==
    IF isUserIdAlreadyUsed(userId) THEN AlreadyUsed ELSE "valid"

\* "valid", or the rejection message
validateUserIdDirectAndUnused(userId) ==
    IF ~isUserIdValid(userId) THEN NotAValidId
    ELSE IF isUserIdAlreadyUsed(userId) THEN AlreadyUsed
    ELSE "valid"

(* ---------------------------- License collection ----------------------- *)
\* License.findOne({licenseKey: key}): the _id of the first match, 0 for null
findOne(lics, key) ==
    LET hits == {i \in 1..Len(lics) : lics[i].licenseKey = key}
    IN IF hits = {} THEN 0 ELSE CHOOSE i \in hits : \A j \in hits : i <= j

\* new License({...}) as /send-license builds it
newLicense(body, key) ==
    [email |-> body.email, userId |-> body.userId, name |-> body.name,
     phoneNumber |-> body.phoneNumber, licenseKey |-> key,
     status |-> "ASSIGNED", machineId |-> Null, activatedAt |-> NoDate]

\* mutation of insertAccepts: no unique index on licenseKey
insertAcceptsDuplicates(lics, doc) == TRUE

\* save() of a new document: the collection refuses a second document
\* with the same licenseKey
insertAccepts(lics, doc) == findOne(lics, doc.licenseKey) = 0

\* mutation of updateDoc: the save writes machineId and activatedAt but
\* leaves the status as it was
updateDocKeepStatus(lics, doc) ==
    [lics EXCEPT ![doc.id].machineId = doc.machineId,
                 ![doc.id].activatedAt = doc.activatedAt]

\* save() of a loaded document: the modified paths are written to the
\* document with that _id, whatever the collection holds by then
updateDoc(lics, doc) ==
    [lics EXCEPT ![doc.id] = [@ EXCEPT !.machineId = doc.machineId,
                                       !.status = doc.status,
                                       !.activatedAt = doc.activatedAt]]

RecordsOf(userId) == {i \in 1..Len(licenses) : licenses[i].userId = userId}

(* ---------------------------- /send-license ---------------------------- *)
\* mutation of markUserIdAsUsed: the ID is not added
markUserIdAsUsedNoAdd(used, userId) == used

\* usedUserIds after markUserIdAsUsed(userId)
markUserIdAsUsed(used, userId) == used \cup {userId}

\* res.json / res.status().json for the request with this userId; the
\* handler ends there and its locals are gone
IssueRespond(r, userId, resp) ==
    /\ ipc' = [ipc EXCEPT ![r] = "idle"]
    /\ ireq' = [ireq EXCEPT ![r] = NoIssueBody]
    /\ ikey' = [ikey EXCEPT ![r] = Missing]
    /\ iout' = [userId |-> userId, resp |-> resp]
    /\ issuedOK' = IF IsSuccess(resp) THEN [issuedOK EXCEPT ![userId] = @ + 1] ELSE issuedOK

\* mutation of issueFieldsMissing: phoneNumber is not required
issueFieldsMissingNoPhone(body) ==
    body.email = Missing \/ body.userId = Missing \/ body.name = Missing

\* !email || !userId || !name || !phoneNumber
issueFieldsMissing(body) ==
    \/ body.email = Missing \/ body.userId = Missing
    \/ body.name = Missing \/ body.phoneNumber = Missing

\* the handler from its entry to the first await: the field check, the
\* user-ID validation and the first candidate key of generateUniqueLicenseKey
IssueBegin(r, body) ==
    /\ ipc[r] = "idle"
    /\ IF issueFieldsMissing(body)
       THEN IssueRespond(r, body.userId, AllFieldsRequired)
       ELSE LET validation == validateUserIdDirectAndUnused(body.userId)
            IN IF validation # "valid"
               THEN IssueRespond(r, body.userId, validation)
               ELSE /\ ipc' = [ipc EXCEPT ![r] = "findOne"]
                    /\ ireq' = [ireq EXCEPT ![r] = body]
                    /\ \E k \in Keys : ikey' = [ikey EXCEPT ![r] = k]
                    /\ iout' = NoIssueOut
                    /\ UNCHANGED issuedOK
    /\ aout' = NoActOut
    /\ UNCHANGED <<validUserIds, licenses, emailConfigured>>
    /\ UNCHANGED actVars

\* mutation of IssueStart: the identity is consumed when it is validated,
\* before the license is saved
IssueStartConsumeFirst(r, body) ==
    /\ IssueBegin(r, body)
    /\ usedUserIds' = IF ipc'[r] = "findOne"
                      THEN markUserIdAsUsed(usedUserIds, body.userId)
                      ELSE usedUserIds
    /\ usedIdsFile' = usedUserIds'

IssueStart(r, body) ==
    /\ IssueBegin(r, body)
    /\ UNCHANGED <<usedUserIds, usedIdsFile>>

\* mutation of IssueFindOne: the candidate is returned whatever findOne
\* answers
IssueFindOneNoLoop(r) ==
    /\ ipc[r] = "findOne"
    /\ ipc' = [ipc EXCEPT ![r] = "save"]
    /\ UNCHANGED ikey
    /\ iout' = NoIssueOut /\ aout' = NoActOut
    /\ UNCHANGED <<ireq, issuedOK>>
    /\ UNCHANGED storeVars
    /\ UNCHANGED actVars

\* generateUniqueLicenseKey: findOne answers; a taken key is replaced by a
\* fresh candidate, a free one is returned and the new License is built
IssueFindOne(r) ==
    /\ ipc[r] = "findOne"
    /\ LET keyExists == findOne(licenses, ikey[r]) # 0
       IN IF keyExists
          THEN /\ \E k \in Keys : ikey' = [ikey EXCEPT ![r] = k]
               /\ UNCHANGED ipc
          ELSE /\ ipc' = [ipc EXCEPT ![r] = "save"]
               /\ UNCHANGED ikey
    /\ iout' = NoIssueOut /\ aout' = NoActOut
    /\ UNCHANGED <<ireq, issuedOK>>
    /\ UNCHANGED storeVars
    /\ UNCHANGED actVars

\* findOne rejects: the catch block answers 500
IssueFindOneFail(r) ==
    /\ ipc[r] = "findOne"
    /\ IssueRespond(r, ireq[r].userId, InternalError)
    /\ aout' = NoActOut
    /\ UNCHANGED storeVars
    /\ UNCHANGED actVars

\* the pass of the loop after which the candidate is k: a taken key replaced
\* by the new candidate k, or the free key k returned
IssueFindOneDraws(r, k) == IssueFindOne(r) /\ ikey'[r] = k

\* newLicense.save() reaches the collection; a refused insert rejects and
\* the catch block answers 500
IssueSave(r) ==
    /\ ipc[r] = "save"
    /\ Len(licenses) < MaxLicenses
    /\ LET doc == newLicense(ireq[r], ikey[r])
       IN IF insertAccepts(licenses, doc)
          THEN /\ licenses' = Append(licenses, doc)
               /\ ipc' = [ipc EXCEPT ![r] = "saved"]
               /\ iout' = NoIssueOut
               /\ UNCHANGED <<ireq, ikey, issuedOK>>
          ELSE /\ IssueRespond(r, ireq[r].userId, InternalError)
               /\ UNCHANGED licenses
    /\ aout' = NoActOut
    /\ UNCHANGED <<validUserIds, usedUserIds, usedIdsFile, emailConfigured>>
    /\ UNCHANGED actVars

\* newLicense.save() rejects without writing: the catch block answers 500
IssueSaveFail(r) ==
    /\ ipc[r] = "save"
    /\ IssueRespond(r, ireq[r].userId, InternalError)
    /\ aout' = NoActOut
    /\ UNCHANGED storeVars
    /\ UNCHANGED actVars

\* after save resolved: without email credentials the ID is marked used and
\* the key is returned; with them sendMail is awaited
IssueSaved(r) ==
    /\ ipc[r] = "saved"
    /\ IF ~emailConfigured
       THEN /\ usedUserIds' = markUserIdAsUsed(usedUserIds, ireq[r].userId)
            /\ usedIdsFile' = usedUserIds'
            /\ IssueRespond(r, ireq[r].userId, SuccessNoEmail)
       ELSE /\ ipc' = [ipc EXCEPT ![r] = "sendMail"]
            /\ iout' = NoIssueOut
            /\ UNCHANGED <<ireq, ikey, issuedOK, usedUserIds, usedIdsFile>>
    /\ aout' = NoActOut
    /\ UNCHANGED <<validUserIds, licenses, emailConfigured>>
    /\ UNCHANGED actVars

\* sendMail resolved: the ID is marked used and success is answered
IssueMailSent(r) ==
    /\ ipc[r] = "sendMail"
    /\ usedUserIds' = markUserIdAsUsed(usedUserIds, ireq[r].userId)
    /\ usedIdsFile' = usedUserIds'
    /\ IssueRespond(r, ireq[r].userId, SuccessSent)
    /\ aout' = NoActOut
    /\ UNCHANGED <<validUserIds, licenses, emailConfigured>>
    /\ UNCHANGED actVars

\* sendMail rejected: the catch block answers 500
IssueMailFail(r) ==
    /\ ipc[r] = "sendMail"
    /\ IssueRespond(r, ireq[r].userId, InternalError)
    /\ aout' = NoActOut
    /\ UNCHANGED storeVars
    /\ UNCHANGED actVars

(* ---------------------------- /activate-license ------------------------ *)
\* res.json / res.status().json for the request with this body; the handler
\* ends there and its locals are gone
ActRespond(r, body, resp) ==
    /\ apc' = [apc EXCEPT ![r] = "idle"]
    /\ areq' = [areq EXCEPT ![r] = NoActBody]
    /\ adoc' = [adoc EXCEPT ![r] = NoDoc]
    /\ aout' = [licenseKey |-> body.licenseKey, machineId |-> body.machineId, resp |-> resp]
    /\ activatedOK' = IF resp = Valid
                      THEN activatedOK \cup {<<body.licenseKey, body.machineId>>}
                      ELSE activatedOK

\* mutation of activateChecks: an ACTIVATED license is activated again
activateChecksNoStatus(lics, id, email, machineId) ==
    IF id = 0 THEN InvalidKey
    ELSE IF lics[id].email # email THEN EmailMismatch
    ELSE "activate"

\* mutation of activateChecks: storedLicense is not tested for null, so
\* reading its email throws and the catch block answers 500
activateChecksNoNullCheck(lics, id, email, machineId) ==
    IF id = 0 THEN DatabaseError
    ELSE IF lics[id].email # email THEN EmailMismatch
    ELSE IF lics[id].status = "ACTIVATED"
         THEN IF lics[id].machineId = machineId THEN AlreadyActivated
              ELSE MachineMismatch
    ELSE "activate"

\* mutation of activateChecks: the status and the machine are checked before
\* the email
activateChecksStatusFirst(lics, id, email, machineId) ==
    IF id = 0 THEN InvalidKey
    ELSE IF lics[id].status = "ACTIVATED"
         THEN IF lics[id].machineId = machineId THEN AlreadyActivated
              ELSE MachineMismatch
    ELSE IF lics[id].email # email THEN EmailMismatch
    ELSE "activate"

\* the checks on storedLicense: the response they end in, or "activate"
activateChecks(lics, id, email, machineId) ==
    IF id = 0 THEN InvalidKey
    ELSE IF lics[id].email # email THEN EmailMismatch
    ELSE IF lics[id].status = "ACTIVATED"
         THEN IF lics[id].machineId = machineId THEN AlreadyActivated
              ELSE MachineMismatch
    ELSE "activate"

\* !email || !licenseKey || !machineId
activateFieldsMissing(body) ==
    body.email = Missing \/ body.licenseKey = Missing \/ body.machineId = Missing

\* the handler from its entry to the await of save: the field check, the
\* answer of findOne and the checks on storedLicense; a license that passes
\* them is modified in memory and its save is awaited.  The handler touches
\* no shared state before findOne reads the collection, so the request is
\* taken to arrive at that read.
ActivateStart(r, body) ==
    /\ apc[r] = "idle"
    /\ IF activateFieldsMissing(body)
       THEN ActRespond(r, NoActBody, ActFieldsRequired)
       ELSE LET id == findOne(licenses, body.licenseKey)
                outcome == activateChecks(licenses, id, body.email, body.machineId)
            IN IF outcome # "activate"
               THEN ActRespond(r, body, outcome)
               ELSE /\ apc' = [apc EXCEPT ![r] = "save"]
                    /\ areq' = [areq EXCEPT ![r] = body]
                    /\ adoc' = [adoc EXCEPT ![r] = [id |-> id, machineId |-> body.machineId,
                                                    status |-> "ACTIVATED", activatedAt |-> Date]]
                    /\ aout' = NoActOut
                    /\ UNCHANGED activatedOK
    /\ iout' = NoIssueOut
    /\ UNCHANGED storeVars
    /\ UNCHANGED issueVars

\* findOne rejects: the catch block answers 500
ActivateFindOneFail(r, body) ==
    /\ apc[r] = "idle"
    /\ ~activateFieldsMissing(body)
    /\ ActRespond(r, body, DatabaseError)
    /\ iout' = NoIssueOut
    /\ UNCHANGED storeVars
    /\ UNCHANGED issueVars

\* storedLicense.save() reaches the collection and VALID is answered
ActivateSave(r) ==
    /\ apc[r] = "save"
    /\ licenses' = updateDoc(licenses, adoc[r])
    /\ ActRespond(r, areq[r], Valid)
    /\ iout' = NoIssueOut
    /\ UNCHANGED <<validUserIds, usedUserIds, usedIdsFile, emailConfigured>>
    /\ UNCHANGED issueVars

\* storedLicense.save() rejects without writing: the catch block answers 500
ActivateSaveFail(r) ==
    /\ apc[r] = "save"
    /\ ActRespond(r, areq[r], DatabaseError)
    /\ iout' = NoIssueOut
    /\ UNCHANGED storeVars
    /\ UNCHANGED issueVars

(* ---------------------------- key generator ---------------------------- *)
\* the digits of Number.prototype.toString(36)
Base36 == <<"0", "1", "2", "3", "4", "5", "6", "7", "8", "9", "a", "b", "c",
            "d", "e", "f", "g", "h", "i", "j", "k", "l", "m", "n", "o", "p",
            "q", "r", "s", "t", "u", "v", "w", "x", "y", "z">>
UpperBase36 == <<"0", "1", "2", "3", "4", "5", "6", "7", "8", "9", "A", "B", "C",
                 "D", "E", "F", "G", "H", "I", "J", "K", "L", "M", "N", "O", "P",
                 "Q", "R", "S", "T", "U", "V", "W", "X", "Y", "Z">>

\* a value of Math.random(), in [0, 1), as the digits of its base-36
\* fraction: none for 0, <<18>> for 0.5.  The last digit of an expansion is
\* not 0, which the digits drawn here never are.
DigitChoices == {1, 35}
RandomValues == UNION {[1..n -> DigitChoices] : n \in 0..MaxDigits}

\* x.toString(36) for x in [0, 1), as a sequence of characters
toString36(x) ==
    IF x = <<>> THEN <<"0">>
    ELSE <<"0", ".">> \o [i \in 1..Len(x) |-> Base36[x[i] + 1]]

\* str.substring(from, to): the characters at the 0-based places from..to-1,
\* both ends clipped to the length of str
substring(str, from, to) ==
    LET lo == IF from < Len(str) THEN from ELSE Len(str)
        hi == IF to < Len(str) THEN to ELSE Len(str)
    IN SubSeq(str, lo + 1, hi)

toUpperCase(str) ==
    [i \in 1..Len(str) |->
        IF \E d \in 1..36 : Base36[d] = str[i]
        THEN UpperBase36[CHOOSE d \in 1..36 : Base36[d] = str[i]]
        ELSE str[i]]

\* segment(): Math.random().toString(36).substring(2, 6).toUpperCase()
segment(x) == toUpperCase(substring(toString36(x), 2, 6))

\* `${segment()}-${segment()}-${segment()}` for three values of Math.random()
candidateKey(x1, x2, x3) ==
    segment(x1) \o <<"-">> \o segment(x2) \o <<"-">> \o segment(x3)

\* a valid request up to the first await, the candidate key being computed
\* from the values Math.random() returns
IssueStartRandom(r) ==
    /\ ipc[r] = "idle"
    /\ \E body \in IssueBodies, x1, x2, x3 \in RandomValues :
          /\ ~issueFieldsMissing(body)
          /\ validateUserIdDirectAndUnused(body.userId) = "valid"
          /\ ireq' = [ireq EXCEPT ![r] = body]
          /\ ikey' = [ikey EXCEPT ![r] = candidateKey(x1, x2, x3)]
    /\ ipc' = [ipc EXCEPT ![r] = "findOne"]
    /\ iout' = NoIssueOut /\ aout' = NoActOut
    /\ UNCHANGED issuedOK
    /\ UNCHANGED storeVars
    /\ UNCHANGED actVars

(* ---------------------------- specification ---------------------------- *)
\* the steps of the /send-license handlers in the given slots
IssueNext(slots) ==
    \/ \E r \in slots, body \in IssueBodies : IssueStart(r, body)
    \/ \E r \in slots : IssueFindOne(r)
    \/ \E r \in slots : IssueFindOneFail(r)
    \/ \E r \in slots : IssueSave(r)
    \/ \E r \in slots : IssueSaveFail(r)
    \/ \E r \in slots : IssueSaved(r)
    \/ \E r \in slots : IssueMailSent(r)
    \/ \E r \in slots : IssueMailFail(r)

\* the steps of the /activate-license handlers
ActivateNext ==
    \/ \E r \in ActSlots, body \in ActBodies : ActivateStart(r, body)
    \/ \E r \in ActSlots, body \in ActBodies : ActivateFindOneFail(r, body)
    \/ \E r \in ActSlots : ActivateSave(r)
    \/ \E r \in ActSlots : ActivateSaveFail(r)

Next == IssueNext(IssueSlots) \/ ActivateNext

Spec == Init /\ [][Next]_vars

\* the server under /send-license traffic alone
SpecIssue == Init /\ [][IssueNext(IssueSlots)]_vars

\* the server under /activate-license traffic, the licenses being issued
\* by one /send-license request at a time
InitActivate == Init /\ validUserIds = {"U1"}

SpecActivate == InitActivate /\ [][IssueNext({1}) \/ ActivateNext]_vars

\* generateUniqueLicenseKey's candidate keys, character by character
SpecKeyGen ==
    InitActivate
    /\ [][IssueStartRandom(1)]_vars

\* /send-license traffic in which an awaited findOne is eventually answered
\* and Math.random() is fair: a candidate that could be drawn again and
\* again is eventually drawn
SpecKeyLoop ==
    /\ SpecIssue
    /\ \A r \in IssueSlots :
          /\ WF_vars(IssueFindOne(r))
          /\ \A k \in Keys : SF_vars(IssueFindOneDraws(r, k))

(* ---------------------------- properties ------------------------------- *)
CompleteIssueBodies ==
    {b \in IssueBodies : b.email # Missing /\ b.userId # Missing
                         /\ b.name # Missing /\ b.phoneNumber # Missing}
CompleteActBodies ==
    {b \in ActBodies : b.email # Missing /\ b.licenseKey # Missing /\ b.machineId # Missing}

\* the machines a VALID response was sent to for this key
Winners(key) == {m \in MachineInputs : <<key, m>> \in activatedOK}

\* C1: of the /send-license requests that carry one allow-listed identity,
\* concurrent ones included, at most one is answered SUCCESS.
C1_OneSuccessPerIdentity ==
    \A u \in UserIdInputs : issuedOK[u] <= 1

\* C2: no two documents of the License collection have the same licenseKey.
C2_LicenseKeysUnique ==
    \A i, j \in 1..Len(licenses) :
        licenses[i].licenseKey = licenses[j].licenseKey => i = j

\* two licenses were issued, under different keys
C2_TwoLicensesIssued ==
    /\ Len(licenses) = 2
    /\ licenses[1].licenseKey # licenses[2].licenseKey

\* C3: every identity has at most one license record, and every consumed
\* identity has exactly one.
C3_OneRecordPerIdentity ==
    \A u \in UserIdInputs :
        /\ Cardinality(RecordsOf(u)) <= 1
        /\ u \in usedUserIds => Cardinality(RecordsOf(u)) = 1

\* C4: of the /activate-license requests for one licenseKey with different
\* machineIds, at most one is answered VALID, and the record is bound to
\* the machine of that request.
C4_OneActivationWinner ==
    \A k \in Keys :
        /\ Cardinality(Winners(k)) <= 1
        /\ \A m \in Winners(k) : licenses[findOne(licenses, k)].machineId = m

C6_OtherMachineNeverSucceeds ==
    aout.resp \in {Valid, AlreadyActivated} =>
        Winners(aout.licenseKey) \subseteq {aout.machineId}

\* C7: every consumed identity has a license record.
C7_ConsumedHasRecord ==
    \A u \in usedUserIds : RecordsOf(u) # {}

\* a request was just answered SUCCESS: its ID is consumed and has a record
C7_ConsumedAfterSave ==
    /\ IsSuccess(iout.resp)
    /\ iout.userId \in usedUserIds
    /\ RecordsOf(iout.userId) # {}

\* C8: every license record belongs to an identity that is marked consumed.
C8_RecordImpliesConsumed ==
    \A i \in 1..Len(licenses) : licenses[i].userId \in usedUserIds

\* C9: when sendMail fails after the license was saved, the request ends
\* with the record in the collection and the identity consumed.
C9_MailFailureKeepsConsumed ==
    [][\A r \in IssueSlots :
          IssueMailFail(r) =>
              /\ RecordsOf(ireq[r].userId) # {}
              /\ licenses' = licenses
              /\ ireq[r].userId \in usedUserIds'
      ]_vars

\* C10: a /send-license request that arrives after a SUCCESS response was
\* sent for its userId is answered "already used" at once and creates or
\* changes no license record.
C10_RejectedAfterSuccess ==
    [][\A r \in IssueSlots, body \in CompleteIssueBodies :
          (issuedOK[body.userId] > 0 /\ IssueStart(r, body)) =>
              /\ iout' = [userId |-> body.userId, resp |-> AlreadyUsed]
              /\ ipc'[r] = "idle"
              /\ licenses' = licenses
      ]_vars

\* a request for an ID that was answered SUCCESS before was just rejected
C10_SecondRequestRejected ==
    /\ iout.resp = AlreadyUsed
    /\ issuedOK[iout.userId] = 1
    /\ Cardinality(RecordsOf(iout.userId)) = 1

AlnumUpper == {UpperBase36[d] : d \in 1..36}

\* C11: every candidate key is 14 characters long, three groups of four
\* characters of [A-Z0-9] separated by hyphens.
C11_KeyFormat ==
    \A r \in IssueSlots :
        ipc[r] = "findOne" =>
            /\ Len(ikey[r]) = 14
            /\ \A i \in 1..14 :
                  IF i \in {5, 10} THEN ikey[r][i] = "-" ELSE ikey[r][i] \in AlnumUpper

\* C12: an activation request whose key has no License record is answered
\* "Invalid license key." and no record is created or changed.
C12_UnknownKeyInvalid ==
    [][\A r \in ActSlots, body \in CompleteActBodies :
          (findOne(licenses, body.licenseKey) = 0 /\ ActivateStart(r, body))
              => /\ aout' = [licenseKey |-> body.licenseKey,
                             machineId |-> body.machineId, resp |-> InvalidKey]
                 /\ licenses' = licenses
                 /\ apc'[r] = "idle"]_vars

\* an unknown key was refused while the collection holds other licenses
C12_UnknownKeyRefused ==
    /\ aout.resp = InvalidKey
    /\ licenses # <<>>
    /\ findOne(licenses, aout.licenseKey) = 0

IncompleteIssueBodies == IssueBodies \ CompleteIssueBodies
IncompleteActBodies == ActBodies \ CompleteActBodies

\* C13: a /send-license or /activate-license request with any required field
\* missing is rejected in its first step, before any lookup or write: in
\* every reachable state, no step of the handler on such a request ends
\* otherwise than with the rejection sent, the handler finished, and the used
\* set, its file and the License records unchanged.
C13_MissingFieldRejected ==
    /\ \A r \in IssueSlots, body \in IncompleteIssueBodies :
          ~ENABLED (/\ IssueStart(r, body)
                    /\ ~(/\ iout'.resp = AllFieldsRequired
                         /\ ipc'[r] = "idle"
                         /\ UNCHANGED storeVars))
    /\ \A r \in ActSlots, body \in IncompleteActBodies :
          ~ENABLED (/\ ActivateStart(r, body)
                    /\ ~(/\ aout'.resp = ActFieldsRequired
                         /\ apc'[r] = "idle"
                         /\ UNCHANGED storeVars))

\* an incomplete issue request was refused after a license was issued, the
\* identity consumed and its record left as it was
C13_IncompleteRefused ==
    /\ iout.resp = AllFieldsRequired
    /\ licenses # <<>>
    /\ usedUserIds # {}

\* an incomplete activation request was refused while a license is stored
C13_IncompleteActivationRefused ==
    /\ aout.resp = ActFieldsRequired
    /\ licenses # <<>>

\* C14: once a License record's machineId is non-null it never changes.
C14_MachineIdNeverChanges ==
    [][\A i \in 1..Len(licenses) :
          licenses[i].machineId # Null
              => licenses'[i].machineId = licenses[i].machineId]_vars

\* C15: a License record's machineId is non-null exactly when its status is
\* ACTIVATED (and exactly then it has an activation time); a record is created
\* ASSIGNED with no machineId; and a write that changes a record leaves it
\* with status ACTIVATED, a machineId and an activation time together.
C15_MachineIdIffActivated ==
    /\ [](\A i \in 1..Len(licenses) :
             /\ licenses[i].status \in {"ASSIGNED", "ACTIVATED"}
             /\ licenses[i].machineId # Null <=> licenses[i].status = "ACTIVATED"
             /\ licenses[i].activatedAt # NoDate <=> licenses[i].status = "ACTIVATED")
    /\ [][\A i \in 1..Len(licenses') :
             IF i > Len(licenses)
             THEN licenses'[i].status = "ASSIGNED" /\ licenses'[i].machineId = Null
             ELSE licenses'[i] # licenses[i]
                     => /\ licenses'[i].status = "ACTIVATED"
                        /\ licenses'[i].machineId # Null
                        /\ licenses'[i].activatedAt # NoDate]_vars

\* a stored license has been activated: its status, machineId and activation
\* time are all set
C15_LicenseActivated ==
    \E i \in 1..Len(licenses) :
        /\ licenses[i].status = "ACTIVATED"
        /\ licenses[i].machineId \in {"mach-1", "mach-2"}
        /\ licenses[i].activatedAt = Date

\* C16: an activation request whose email differs from the email stored with
\* the license is answered with the email-mismatch error whatever the
\* record's status and machineId are (the email is checked before them), and
\* the records are left as they were.
C16_EmailMismatchFirst ==
    \A r \in ActSlots, body \in CompleteActBodies :
        LET id == findOne(licenses, body.licenseKey)
        IN (id # 0 /\ licenses[id].email # body.email)
               => ~ENABLED (/\ ActivateStart(r, body)
                            /\ ~(/\ aout' = [licenseKey |-> body.licenseKey,
                                             machineId |-> body.machineId,
                                             resp |-> EmailMismatch]
                                 /\ apc'[r] = "idle"
                                 /\ licenses' = licenses))

\* the wrong email was refused for a license that is already ACTIVATED on
\* the machine the request came from
C16_MismatchOnActivated ==
    /\ aout.resp = EmailMismatch
    /\ \E i \in 1..Len(licenses) :
          /\ licenses[i].licenseKey = aout.licenseKey
          /\ licenses[i].status = "ACTIVATED"
          /\ licenses[i].machineId = aout.machineId

\* C17: when the insert of a new License is refused because its key is
\* already stored, the key is generated again and the insert retried: the
\* request is not answered with an error and stays in the generate-and-save
\* loop, and the stored records are not overwritten.
C17_CollisionRetried ==
    [][\A r \in IssueSlots :
          (/\ ipc[r] = "save"
           /\ ~insertAccepts(licenses, newLicense(ireq[r], ikey[r]))
           /\ IssueSave(r))
              => /\ iout'.resp = NoResp
                 /\ ipc'[r] \in {"findOne", "save"}
                 /\ licenses' = licenses]_vars

UnusedKeys == {k \in Keys : findOne(licenses, k) = 0}

\* C18: generateUniqueLicenseKey repeats generate-then-lookup until the
\* lookup finds no record: a candidate that has a record is replaced and
\* looked up again, a key is returned only if it had no record when it was
\* looked up, and while some key is unused the loop ends.
C18_KeyLoop ==
    /\ [][\A r \in IssueSlots :
             IssueFindOne(r)
                 => IF findOne(licenses, ikey[r]) # 0
                    THEN ipc'[r] = "findOne" /\ ikey'[r] \in Keys
                    ELSE ipc'[r] = "save" /\ ikey'[r] = ikey[r]]_vars
    /\ \A r \in IssueSlots :
          (ipc[r] = "findOne" /\ UnusedKeys # {})
              ~> (ipc[r] # "findOne" \/ UnusedKeys = {})

\* a key was returned, after a lookup that found no record, while the
\* collection holds a license with the other key
C18_UnusedKeyReturned ==
    \E r \in IssueSlots :
        /\ ipc[r] = "save"
        /\ licenses # <<>>
        /\ findOne(licenses, ikey[r]) = 0

\* C19: a /send-license request whose userId is not on the allow-list is
\* refused with the 'not a valid ID' reason, creates no record and consumes
\* nothing; so every License record's userId, and every consumed identity,
\* is on the allow-list.
C19_OnlyAllowListed ==
    /\ \A i \in 1..Len(licenses) : licenses[i].userId \in validUserIds
    /\ usedUserIds \subseteq validUserIds
    /\ \A r \in IssueSlots, body \in CompleteIssueBodies :
          body.userId \notin validUserIds
              => ~ENABLED (/\ IssueStart(r, body)
                           /\ ~(/\ iout' = [userId |-> body.userId, resp |-> NotAValidId]
                                /\ ipc'[r] = "idle"
                                /\ UNCHANGED storeVars))

\* an identity that is not on the allow-list was refused while licenses of
\* allow-listed identities are stored
C19_UnlistedRefused ==
    /\ iout.resp = NotAValidId
    /\ iout.userId \notin validUserIds
    /\ licenses # <<>>
    /\ RecordsOf(iout.userId) = {}

\* C20: SUCCESS is answered only after the License record is stored and the
\* identity is marked consumed, in memory and in the file, whether the
\* response carries the key (no email configured) or the key was mailed.
C20_SuccessAfterPersistAndConsume ==
    IsSuccess(iout.resp) =>
        /\ iout.userId \in usedUserIds
        /\ iout.userId \in usedIdsFile
        /\ RecordsOf(iout.userId) # {}
        /\ iout.resp = (IF emailConfigured THEN SuccessSent ELSE SuccessNoEmail)

\* the key was mailed and SUCCESS answered: the record is stored and the
\* identity is in the used set and in its file
C20_SuccessWithEmail ==
    /\ emailConfigured
    /\ iout.resp = SuccessSent
    /\ iout.userId \in usedIdsFile
    /\ \E i \in RecordsOf(iout.userId) : licenses[i].status = "ASSIGNED"
====
